---- MODULE Spec2Model ----
(***************************************************************************)
(* A model of the Kalki resolution agent (src/agent/kalki_agent.py):       *)
(* the polling loop of KalkiAgent.start, the per-request pipeline of       *)
(* handle_resolution_request (get_request_details, gather_evidence,        *)
(* analyze_with_ai, submit_resolution) and the chain it talks to.          *)
(***************************************************************************)
EXTENDS Integers, Sequences, FiniteSets, TLC

VARIABLES
    perplexity_api_key, \* self.perplexity_api_key is set (os.getenv at construction)
    n_emitted,          \* chain: number of AgentSelected events emitted so far
    new_entries,        \* chain: entries the event filter holds for the next poll
    assigned,           \* history: events emitted for this agent, per requestId
    wpc,                \* position of the loop of start
    batch,              \* the rest of the list the loop of start is iterating over
    jpc,                \* position of handle_resolution_request
    request_id,         \* its argument
    request,            \* result of get_request_details
    tasks,              \* gather: each source task, by registration index
    done_order,         \* gather: task indices in the order the tasks completed
    task_funcs,         \* gather: the source function each task was created from
    evidence,           \* result of gather_evidence
    analysis,           \* result of analyze_with_ai
    tx,                 \* the transaction submit_resolution has built
    txs,                \* chain: transactions broadcast by this account, in order
    mined,              \* chain: indices of the mined transactions of txs
    runs,               \* history: handle_resolution_request calls per requestId
    submits,            \* history: submit_resolution calls per requestId
    committed,          \* history: requestIds whose submit_resolution returned
    failed,             \* history: <<requestId, stage>> of each error the handler logged
    a_inputs,           \* analysis harness: the (question, evidence) of each call
    a_results           \* analysis harness: what the calls made so far returned

vars == << perplexity_api_key, n_emitted, new_entries, assigned, wpc, batch, jpc,
           request_id, request, tasks, done_order, task_funcs, evidence,
           analysis, tx, txs, mined, runs, submits, committed, failed, a_inputs, a_results >>

watcherVars == << wpc, batch >>
eventVars == << n_emitted, new_entries, assigned >>
jobVars == << jpc, request_id, request, evidence, analysis, tx >>
gatherVars == << tasks, done_order, task_funcs >>
chainVars == << txs, mined >>
historyVars == << runs, submits, committed, failed >>
harnessVars == << a_inputs, a_results >>

-----------------------------------------------------------------------------
(* Bounds of the model *)

\* events the contract emits in one run
MaxEvents == 2
\* records in a bundle handed to analyze_with_ai by the analysis harness
MaxRecords == 3

-----------------------------------------------------------------------------
(* Values *)

RequestIds == {1, 2}

\* self.account.address, and the addresses an event may carry
OwnAddress == "0xAbC1"
Addresses == {"0xAbC1", "0xabc1", "0xDeF2"}

\* str.lower on the addresses above
Lower(a) ==
    CASE a = "0xAbC1" -> "0xabc1"
      [] a = "0xabc1" -> "0xabc1"
      [] a = "0xDeF2" -> "0xdef2"

Questions == {"q1", "q2"}

\* the question of the request the contract holds under a requestId
QuestionOf(r) == IF r = 1 THEN "q1" ELSE "q2"

Categories == {"crypto", "sports", "general", "weather"}

\* the addresses that are this agent's address, in whatever letter case
OwnAddressAnyCase == {"0xAbC1", "0xabc1"}

\* Python's None for a record-valued slot, and the empty dict {}
None == [none |-> TRUE]
EmptyDict == << >>

Min(a, b) == IF a <= b THEN a ELSE b

RECURSIVE CountAnswer(_, _)
\* sum(1 for s in srcs if s.get('answer') == ans)
CountAnswer(srcs, ans) ==
    IF srcs = << >> THEN 0
    ELSE (IF Head(srcs).answer = ans THEN 1 ELSE 0) + CountAnswer(Tail(srcs), ans)

-----------------------------------------------------------------------------
(* The source registry and the evidence sources *)

\* self.sources
sources ==
    [ crypto  |-> << "query_coingecko", "query_binance", "query_coinmarketcap" >>,
      sports  |-> << "query_espn", "query_thescore" >>,
      general |-> << "query_perplexity", "query_google_news" >> ]

\* source_functions with an empty default: self.sources.get(category, [])
SourceFunctionsNoFallback(category) ==
    IF category \in DOMAIN sources THEN sources[category] ELSE << >>

\* self.sources.get(category, self.sources['general'])
source_functions(category) ==
    IF category \in DOMAIN sources THEN sources[category] ELSE sources["general"]

\* the 'source' field of the record a source function returns
SourceName(f) ==
    CASE f = "query_coingecko"     -> "CoinGecko"
      [] f = "query_binance"       -> "Binance"
      [] f = "query_coinmarketcap" -> "CoinMarketCap"
      [] f = "query_espn"          -> "ESPN"
      [] f = "query_thescore"      -> "TheScore"
      [] f = "query_perplexity"    -> "Perplexity AI"
      [] f = "query_google_news"   -> "Google News"

\* the source functions that await an HTTP response (and re-raise its errors)
NetworkCall(f, key) ==
    \/ f \in {"query_coingecko", "query_binance"}
    \/ f = "query_perplexity" /\ key

\* the 'answer' field a source function can return
SourceAnswers(f, key) ==
    IF f = "query_perplexity" /\ key THEN {"True", "False"} ELSE {"None"}

\* the record a source function returns
SourceRecord(f, ans) == [source |-> SourceName(f), answer |-> ans]

-----------------------------------------------------------------------------
(* gather_evidence *)

\* states of a source task that has not completed, and the exception a failed
\* source call raises
Pending == [task |-> "pending"]
Hung == [task |-> "hung"]
Exception == [exception |-> TRUE]

\* asyncio.gather(*tasks, return_exceptions=True) has a result for every task
AllDone(ts) == \A i \in 1..Len(ts) : ts[i] \notin {Pending, Hung}

\* GatherResults handing the results back in the order the tasks completed
GatherResultsAsCompleted(ts, order) == [j \in 1..Len(order) |-> ts[order[j]]]

\* results = await asyncio.gather(*tasks, return_exceptions=True): the results
\* (records and exceptions alike) in the order of the tasks, whatever the order
\* the tasks completed in
GatherResults(ts, order) == ts

\* GatherRaises without return_exceptions=True: the first exception propagates
GatherRaisesOnError(ts) == \E i \in 1..Len(ts) : ts[i] = Exception

\* return_exceptions=True: a failed task never makes the gather itself raise
GatherRaises(ts) == FALSE

\* valid_results = [r for r in results if not isinstance(r, Exception)]
ValidResults(res) == SelectSeq(res, LAMBDA r : r # Exception)

\* the dict gather_evidence returns
Bundle(question, category, valid) ==
    [ question     |-> question,
      category     |-> category,
      sources      |-> valid,
      source_count |-> Len(valid) ]

gather_evidence(question, category, ts, order) ==
    Bundle(question, category, ValidResults(GatherResults(ts, order)))

-----------------------------------------------------------------------------
(* analyze_with_ai *)

\* Confidence with the min(95, ...) left out
ConfidenceUnclamped(w, n) == 60 + ((w * 40) \div n)

\* int(min(95, 60 + (w / n * 40))): the confidence of the side that has w of
\* the n records
Confidence(w, n) == Min(95, 60 + ((w * 40) \div n))

\* Outcome with the first comparison written >=, so that a tie takes its branch
OutcomeTieTrue(yes_count, no_count) ==
    IF yes_count >= no_count THEN TRUE ELSE FALSE

\* outcome, by the branch taken
Outcome(yes_count, no_count) ==
    IF yes_count > no_count THEN TRUE
    ELSE IF no_count > yes_count THEN FALSE
    ELSE FALSE

\* ConfidenceOf dividing by the records that have an answer, not by all of them
ConfidenceOfKnown(yes_count, no_count, n) ==
    IF yes_count > no_count THEN Confidence(yes_count, yes_count + no_count)
    ELSE IF no_count > yes_count THEN Confidence(no_count, yes_count + no_count)
    ELSE 50

\* ConfidenceOf with the counts of the two branches swapped
ConfidenceOfLoser(yes_count, no_count, n) ==
    IF yes_count > no_count THEN Confidence(no_count, n)
    ELSE IF no_count > yes_count THEN Confidence(yes_count, n)
    ELSE 50

\* confidence, by the branch taken; n is len(evidence['sources'])
ConfidenceOf(yes_count, no_count, n) ==
    IF yes_count > no_count THEN Confidence(yes_count, n)
    ELSE IF no_count > yes_count THEN Confidence(no_count, n)
    ELSE 50

\* the 'reasoning' string, by the numbers it is formatted from
Reasoning(n, yes_count, no_count) ==
    << "Based on", n, "sources:", yes_count, "YES,", no_count, "NO" >>

\* KeyEvidence with None, not {}, for the empty list
KeyEvidenceNone(srcs) == IF srcs # << >> THEN srcs[1] ELSE None

\* evidence['sources'][0] if evidence['sources'] else {}
KeyEvidence(srcs) == IF srcs # << >> THEN srcs[1] ELSE EmptyDict

\* analyze_with_ai with an outcome that looks at the question text as well
analyze_with_ai_question(question, ev) ==
    LET srcs      == ev.sources
        yes_count == CountAnswer(srcs, "True")
        no_count  == CountAnswer(srcs, "False")
    IN  [ outcome      |-> Outcome(yes_count, no_count) \/ (question = "q2" /\ yes_count > 0),
          confidence   |-> ConfidenceOf(yes_count, no_count, Len(srcs)),
          reasoning    |-> Reasoning(Len(srcs), yes_count, no_count),
          key_evidence |-> KeyEvidence(srcs) ]

analyze_with_ai(question, ev) ==
    LET srcs      == ev.sources
        yes_count == CountAnswer(srcs, "True")
        no_count  == CountAnswer(srcs, "False")
    IN  [ outcome      |-> Outcome(yes_count, no_count),
          confidence   |-> ConfidenceOf(yes_count, no_count, Len(srcs)),
          reasoning    |-> Reasoning(Len(srcs), yes_count, no_count),
          key_evidence |-> KeyEvidence(srcs) ]

-----------------------------------------------------------------------------
(* The chain *)

\* self.w3.keccak(text=json.dumps(evidence)): the digest, by what it is a digest of
keccak(ev) == [keccak |-> ev]

\* self.w3.eth.get_transaction_count(self.account.address): the account's
\* transactions in the latest block (pending ones are not counted)
get_transaction_count == Cardinality(mined)

\* the contract emits AgentSelected(requestId, agent)
EmitEvent ==
    /\ n_emitted < MaxEvents
    /\ \E r \in RequestIds, a \in Addresses :
          /\ new_entries' = Append(new_entries, [requestId |-> r, agent |-> a])
          /\ assigned' = IF a \in OwnAddressAnyCase
                         THEN [assigned EXCEPT ![r] = @ + 1]
                         ELSE assigned
    /\ n_emitted' = n_emitted + 1
    /\ UNCHANGED << perplexity_api_key, watcherVars, jobVars, gatherVars,
                    chainVars, historyVars, harnessVars >>

\* a block includes the pending transaction that carries the account's next nonce
ChainMine ==
    /\ \E i \in (1..Len(txs)) \ mined :
          /\ txs[i].nonce = Cardinality(mined)
          /\ mined' = mined \cup {i}
    /\ UNCHANGED << perplexity_api_key, eventVars, watcherVars, jobVars,
                    gatherVars, txs, historyVars, harnessVars >>

-----------------------------------------------------------------------------
(* start: the polling loop *)

\* event_filter.get_new_entries() returns the entries since the last call
PollOk ==
    /\ wpc = "poll" /\ jpc = "idle"
    /\ batch' = new_entries
    /\ new_entries' = << >>
    /\ wpc' = "batch"
    /\ UNCHANGED << perplexity_api_key, n_emitted, assigned, jobVars, gatherVars,
                    chainVars, historyVars, harnessVars >>

\* LoopExcept without the try/except of the while loop: the exception leaves
\* start and the process ends
LoopExceptStops == "stopped"

\* where an exception raised in the body of the while loop takes the loop:
\* except Exception as e: logger.error(...); await asyncio.sleep(10)
LoopExcept == "sleep10"

\* PollRaise with the failed poll throwing away what the filter holds
PollRaiseDropsEntries ==
    /\ wpc = "poll" /\ jpc = "idle"
    /\ wpc' = LoopExcept
    /\ new_entries' = << >>
    /\ UNCHANGED << perplexity_api_key, n_emitted, assigned, batch, jobVars,
                    gatherVars, chainVars, historyVars, harnessVars >>

\* event_filter.get_new_entries() raises: nothing was returned, and the loop
\* goes to its except clause
PollRaise ==
    /\ wpc = "poll" /\ jpc = "idle"
    /\ wpc' = LoopExcept
    /\ UNCHANGED << perplexity_api_key, eventVars, batch, jobVars, gatherVars,
                    chainVars, historyVars, harnessVars >>

\* ForThisAgent comparing the addresses as they are written
ForThisAgentCaseSensitive(event) == event.agent = OwnAddress

\* if event['args']['agent'].lower() == self.account.address.lower()
ForThisAgent(event) == Lower(event.agent) = Lower(OwnAddress)

\* the for loop takes the next event; one for this agent starts
\* handle_resolution_request(request_id), which the loop awaits
NextEvent ==
    /\ wpc = "batch" /\ jpc = "idle" /\ batch # << >>
    /\ batch' = Tail(batch)
    /\ IF ForThisAgent(Head(batch))
       THEN /\ jpc' = "fetch"
            /\ request_id' = Head(batch).requestId
            /\ runs' = [runs EXCEPT ![Head(batch).requestId] = @ + 1]
       ELSE UNCHANGED << jpc, request_id, runs >>
    /\ UNCHANGED << perplexity_api_key, eventVars, wpc, request, evidence,
                    analysis, tx, gatherVars, chainVars, submits, committed,
                    failed, harnessVars >>

\* the for loop is exhausted: await asyncio.sleep(5)
EndBatch ==
    /\ wpc = "batch" /\ jpc = "idle" /\ batch = << >>
    /\ wpc' = "sleep5"
    /\ UNCHANGED << perplexity_api_key, eventVars, batch, jobVars, gatherVars,
                    chainVars, historyVars, harnessVars >>

\* a sleep ends and the while loop goes round
Wake ==
    /\ wpc \in {"sleep5", "sleep10"}
    /\ wpc' = "poll"
    /\ UNCHANGED << perplexity_api_key, eventVars, batch, jobVars, gatherVars,
                    chainVars, historyVars, harnessVars >>

-----------------------------------------------------------------------------
(* handle_resolution_request *)

\* the handler is over (it returned, or its except clause logged the error):
\* its locals are gone and the loop of start goes on
HandlerExit ==
    /\ jpc' = "idle"
    /\ request_id' = 0
    /\ request' = None
    /\ evidence' = None
    /\ analysis' = None
    /\ tx' = None
    /\ tasks' = << >>
    /\ done_order' = << >>
    /\ task_funcs' = << >>

\* except Exception as e: logger.error(...), at whatever stage the handler is in
HandlerExcept ==
    /\ failed' = failed \cup {<< request_id, jpc >>}
    /\ HandlerExit

\* request = await self.get_request_details(request_id), then gather_evidence
\* creates one task per source function of the category and awaits them
GetRequestDetailsOk ==
    /\ jpc = "fetch"
    /\ \E c \in Categories :
          /\ request' = [question |-> QuestionOf(request_id), category |-> c]
          /\ task_funcs' = source_functions(c)
          /\ tasks' = [i \in 1..Len(source_functions(c)) |-> Pending]
    /\ done_order' = << >>
    /\ jpc' = "gather"
    /\ UNCHANGED << perplexity_api_key, eventVars, watcherVars, request_id,
                    evidence, analysis, tx, chainVars, historyVars, harnessVars >>

\* GetRequestDetailsRaise without the try/except of the handler: the exception
\* leaves handle_resolution_request, abandons the for loop over the batch and
\* reaches the except clause of the while loop
GetRequestDetailsRaiseToLoop ==
    /\ jpc = "fetch"
    /\ HandlerExcept
    /\ wpc' = LoopExcept
    /\ batch' = << >>
    /\ UNCHANGED << perplexity_api_key, eventVars, chainVars,
                    runs, submits, committed, harnessVars >>

\* the contract call of get_request_details raises
GetRequestDetailsRaise ==
    /\ jpc = "fetch"
    /\ HandlerExcept
    /\ UNCHANGED << perplexity_api_key, eventVars, watcherVars, chainVars,
                    runs, submits, committed, harnessVars >>

\* the source function of task i: tasks = [func(question) for func in source_functions]
TaskFunction(i) == task_funcs[i]

\* source task i returns its record
SourceReturn(i) ==
    /\ jpc = "gather" /\ tasks[i] = Pending
    /\ \E ans \in SourceAnswers(TaskFunction(i), perplexity_api_key) :
          tasks' = [tasks EXCEPT ![i] = SourceRecord(TaskFunction(i), ans)]
    /\ done_order' = Append(done_order, i)
    /\ UNCHANGED << perplexity_api_key, eventVars, watcherVars, jobVars,
                    task_funcs, chainVars, historyVars, harnessVars >>

\* source task i fails: the HTTP call raises, the source logs and re-raises
SourceRaise(i) ==
    /\ jpc = "gather" /\ tasks[i] = Pending
    /\ NetworkCall(TaskFunction(i), perplexity_api_key)
    /\ tasks' = [tasks EXCEPT ![i] = Exception]
    /\ done_order' = Append(done_order, i)
    /\ UNCHANGED << perplexity_api_key, eventVars, watcherVars, jobVars,
                    task_funcs, chainVars, historyVars, harnessVars >>

\* the server of source task i never responds: the await on the response
\* (session.get / resp.json, no timeout given) never completes
SourceHang(i) ==
    /\ jpc = "gather" /\ tasks[i] = Pending
    /\ NetworkCall(TaskFunction(i), perplexity_api_key)
    /\ tasks' = [tasks EXCEPT ![i] = Hung]
    /\ UNCHANGED << perplexity_api_key, eventVars, watcherVars, jobVars,
                    done_order, task_funcs, chainVars, historyVars, harnessVars >>

\* asyncio.gather returns once every task is done; gather_evidence returns
\* the bundle
GatherJoin ==
    /\ jpc = "gather" /\ AllDone(tasks)
    /\ IF GatherRaises(tasks)
       THEN /\ HandlerExcept
            /\ UNCHANGED << runs, submits, committed >>
       ELSE /\ evidence' = gather_evidence(request.question, request.category,
                                           tasks, done_order)
            /\ jpc' = "analyze"
            /\ UNCHANGED << request_id, request, analysis, tx, gatherVars,
                            historyVars >>
    /\ UNCHANGED << perplexity_api_key, eventVars, watcherVars, chainVars,
                    harnessVars >>

\* analysis = await self.analyze_with_ai(question=..., evidence=evidence); the
\* source tasks of the gather are gone by now
Analyze ==
    /\ jpc = "analyze"
    /\ analysis' = analyze_with_ai(request.question, evidence)
    /\ jpc' = "submit"
    /\ tasks' = << >>
    /\ done_order' = << >>
    /\ task_funcs' = << >>
    /\ UNCHANGED << perplexity_api_key, eventVars, watcherVars, request_id,
                    request, evidence, tx, chainVars, historyVars,
                    harnessVars >>

-----------------------------------------------------------------------------
(* submit_resolution *)

\* submitResolution with the hash taken over the list of records only
submitResolutionHashSources(rid, outc, conf, ev, nonce) ==
    [ request_id    |-> rid,
      outcome       |-> outc,
      confidence    |-> conf,
      evidence_hash |-> keccak(ev.sources),
      nonce         |-> nonce ]

\* evidence_hash = self.w3.keccak(text=json.dumps(evidence)), and the
\* transaction submitResolution(request_id, outcome, confidence, evidence_hash)
\* built with the nonce
submitResolution(rid, outc, conf, ev, nonce) ==
    [ request_id    |-> rid,
      outcome       |-> outc,
      confidence    |-> conf,
      evidence_hash |-> keccak(ev),
      nonce         |-> nonce ]

\* submit_resolution is called with the handler's request_id, analysis and
\* evidence; build_transaction reads the nonce and gas price from the node
SubmitBuildOk ==
    /\ jpc = "submit"
    /\ submits' = [submits EXCEPT ![request_id] = @ + 1]
    /\ tx' = submitResolution(request_id, analysis.outcome, analysis.confidence,
                              evidence, get_transaction_count)
    /\ jpc' = "send"
    /\ UNCHANGED << perplexity_api_key, eventVars, watcherVars, request_id,
                    request, evidence, analysis, gatherVars, chainVars, runs,
                    committed, failed, harnessVars >>

\* a node call of build_transaction raises
SubmitBuildRaise ==
    /\ jpc = "submit"
    /\ submits' = [submits EXCEPT ![request_id] = @ + 1]
    /\ HandlerExcept
    /\ UNCHANGED << perplexity_api_key, eventVars, watcherVars, chainVars,
                    runs, committed, harnessVars >>

\* sign_transaction, then send_raw_transaction: the node accepts the transaction
SendOk ==
    /\ jpc = "send"
    /\ txs' = Append(txs, tx)
    /\ jpc' = "wait"
    /\ UNCHANGED << perplexity_api_key, eventVars, watcherVars, request_id,
                    request, evidence, analysis, tx, gatherVars, mined,
                    historyVars, harnessVars >>

\* sign_transaction raises, or the node rejects the transaction
SendRaise ==
    /\ jpc = "send"
    /\ HandlerExcept
    /\ UNCHANGED << perplexity_api_key, eventVars, watcherVars, chainVars,
                    runs, submits, committed, harnessVars >>

\* ReceiptOk without the wait: the hash is returned as soon as the
\* transaction is sent
ReceiptOkUnconfirmed ==
    /\ jpc = "wait"
    /\ committed' = committed \cup {request_id}
    /\ HandlerExit
    /\ UNCHANGED << perplexity_api_key, eventVars, watcherVars, chainVars,
                    runs, submits, failed, harnessVars >>

\* wait_for_transaction_receipt returns the receipt of the transaction sent
\* last; submit_resolution returns tx_hash.hex() and the handler logs it
ReceiptOk ==
    /\ jpc = "wait" /\ Len(txs) \in mined
    /\ committed' = committed \cup {request_id}
    /\ HandlerExit
    /\ UNCHANGED << perplexity_api_key, eventVars, watcherVars, chainVars,
                    runs, submits, failed, harnessVars >>

\* wait_for_transaction_receipt raises (its timeout passes with the
\* transaction not mined, or the node call fails)
ReceiptRaise ==
    /\ jpc = "wait"
    /\ HandlerExcept
    /\ UNCHANGED << perplexity_api_key, eventVars, watcherVars, chainVars,
                    runs, submits, committed, harnessVars >>

-----------------------------------------------------------------------------
(* The agent *)

\* the analysis harness is not in use
NoHarness == a_inputs = << >> /\ a_results = << >>

\* the agent after construction, with the event filter created
InitAgent ==
    /\ perplexity_api_key \in BOOLEAN
    /\ n_emitted = 0
    /\ new_entries = << >>
    /\ assigned = [r \in RequestIds |-> 0]
    /\ wpc = "poll"
    /\ batch = << >>
    /\ jpc = "idle"
    /\ request_id = 0
    /\ request = None
    /\ tasks = << >>
    /\ done_order = << >>
    /\ task_funcs = << >>
    /\ evidence = None
    /\ analysis = None
    /\ tx = None
    /\ txs = << >>
    /\ mined = {}
    /\ runs = [r \in RequestIds |-> 0]
    /\ submits = [r \in RequestIds |-> 0]
    /\ committed = {}
    /\ failed = {}

Init == InitAgent /\ NoHarness

ChainNext == EmitEvent \/ ChainMine

WatcherNext == PollOk \/ PollRaise \/ NextEvent \/ EndBatch \/ Wake

SourceNext ==
    \/ \E i \in 1..Len(tasks) : SourceReturn(i)
    \/ \E i \in 1..Len(tasks) : SourceRaise(i)
    \/ \E i \in 1..Len(tasks) : SourceHang(i)

JobNext ==
    \/ GetRequestDetailsOk \/ GetRequestDetailsRaise
    \/ SourceNext \/ GatherJoin \/ Analyze
    \/ SubmitBuildOk \/ SubmitBuildRaise \/ SendOk \/ SendRaise
    \/ ReceiptOk \/ ReceiptRaise

Next == ChainNext \/ WatcherNext \/ JobNext

Spec == Init /\ [][Next]_vars

\* the event loop runs whatever is ready: the loop of start and the handler it
\* awaits keep taking the steps they can take
Fairness == WF_vars(WatcherNext) /\ WF_vars(JobNext)

FairSpec == Spec /\ Fairness

TypeOK ==
    /\ wpc \in {"poll", "batch", "sleep5", "sleep10"}
    /\ jpc \in {"idle", "fetch", "gather", "analyze", "submit", "send", "wait"}
    /\ n_emitted \in 0..MaxEvents
    /\ Len(txs) <= n_emitted

-----------------------------------------------------------------------------
(* Properties of the watcher and of gather_evidence, under Spec *)

\* a job for requestId r is in progress
Active(r) == jpc # "idle" /\ request_id = r

\* C1: at most one job per requestId: an event for a requestId whose job is
\* active or committed is discarded, so no further handle_resolution_request
\* starts for it, and no further submit_resolution once it is committed.
C1_OneJobPerRequest ==
    [][ \A r \in RequestIds :
          /\ (Active(r) \/ r \in committed) => runs'[r] = runs[r]
          /\ r \in committed => submits'[r] = submits[r] ]_vars

\* the source tasks of the gather that failed, and those that returned
FailedTasks == { i \in 1..Len(tasks) : tasks[i] = Exception }
OkTasks == { i \in 1..Len(tasks) : tasks[i] \notin {Exception, Pending, Hung} }

\* the j-th task that returned, in registration order
NthOk(j) == CHOOSE i \in OkTasks : Cardinality({ m \in OkTasks : m < i }) = j - 1

\* C2: when k of the n sources registered for the category fail, the bundle
\* has source_count = n - k and its sources are exactly the records of the
\* sources that succeeded, in registration order, whatever order the source
\* calls completed in.
C2_PartialFailure ==
    jpc = "analyze" =>
        LET fns == source_functions(request.category)
            n   == Len(fns)
            k   == Cardinality(FailedTasks)
        IN  /\ Len(tasks) = n
            /\ evidence.source_count = n - k
            /\ Len(evidence.sources) = n - k
            /\ \A j \in 1..(n - k) :
                  /\ evidence.sources[j] = tasks[NthOk(j)]
                  /\ evidence.sources[j].source = SourceName(fns[NthOk(j)])

C2_Witness ==
    /\ jpc = "analyze"
    /\ Cardinality(FailedTasks) = 1
    /\ evidence.source_count = 2
    /\ done_order[1] > done_order[2]

\* C3: gather_evidence never raises, whichever sources fail: the handler
\* logs no error at the gathering stage, and a job that is at the analysis
\* stage holds a bundle whose source_count is the number of sources that
\* returned.
C3_GatherNeverFails ==
    /\ \A f \in failed : f[2] # "gather"
    /\ jpc = "analyze" =>
          /\ evidence # None
          /\ evidence.source_count = Cardinality(OkTasks)

C3_Witness ==
    /\ jpc = "analyze"
    /\ Cardinality(FailedTasks) = 2
    /\ evidence.source_count = 1

RECURSIVE CountFor(_, _)
\* the entries of a list of events that are for this agent and requestId r
CountFor(events, r) ==
    IF events = << >> THEN 0
    ELSE (IF Head(events).requestId = r /\ Head(events).agent \in OwnAddressAnyCase
          THEN 1 ELSE 0) + CountFor(Tail(events), r)

\* the events for this agent and requestId r that are still to be handled:
\* held by the filter for the next poll, or in the rest of the batch
PendingFor(r) == CountFor(new_entries, r) + CountFor(batch, r)

\* C12: no selection event is lost, whatever polls fail: every event emitted
\* for this agent has been handed to handle_resolution_request or is still
\* held, by the filter for the next successful poll or in the rest of the
\* batch being iterated (an error in a handler does not drop the rest).
C12_NoEventLost ==
    \A r \in RequestIds : assigned[r] <= runs[r] + PendingFor(r)

C12_Witness ==
    /\ wpc = "sleep10"
    /\ \E r \in RequestIds : CountFor(new_entries, r) > 0
    /\ \E f \in failed : CountFor(batch, f[1]) + runs[f[1]] = assigned[f[1]]

\* C13: the loop of start survives failures: no exception of a handler or of
\* a poll ends it, and after either the loop is at a statement from which it
\* goes on (the next event, the sleep, the next poll).
C13_LoopSurvives ==
    /\ wpc \in {"poll", "batch", "sleep5", "sleep10"}
    /\ jpc = "idle" => ENABLED WatcherNext

C13_Witness ==
    /\ failed # {}
    /\ jpc = "idle"
    /\ wpc = "sleep10"
    /\ ENABLED Wake

\* the source functions registered under a category in __init__
Registered(category) ==
    CASE category = "crypto"  -> << "query_coingecko", "query_binance", "query_coinmarketcap" >>
      [] category = "sports"  -> << "query_espn", "query_thescore" >>
      [] category = "general" -> << "query_perplexity", "query_google_news" >>

\* C11: gather_evidence queries exactly the sources registered for the
\* request's category when it is crypto, sports or general, and exactly the
\* sources registered for general for every other category; the records of
\* the bundle come from those sources and no others.
C11_CategoryRouting ==
    LET expected == IF request.category \in {"crypto", "sports", "general"}
                    THEN Registered(request.category)
                    ELSE Registered("general")
    IN  /\ jpc \in {"gather", "analyze"} =>
              /\ task_funcs = expected
              /\ Len(tasks) = Len(expected)
        /\ jpc = "analyze" =>
              \A j \in 1..Len(evidence.sources) :
                  \E i \in 1..Len(expected) :
                      evidence.sources[j].source = SourceName(expected[i])

C11_Witness ==
    /\ jpc = "analyze"
    /\ request.category = "weather"
    /\ task_funcs = << "query_perplexity", "query_google_news" >>
    /\ evidence.source_count = 2

\* C14: polling and jobs are independent units of suspension: while a job
\* waits on its evidence sources or on a transaction receipt, the loop of
\* start can take its next step (the next poll, the next event, a job for
\* another requestId).
C14_IndependentSuspension ==
    jpc \in {"gather", "wait"} => ENABLED WatcherNext

\* C15: a job fails only after retries: when a failure of get_request_details,
\* of the broadcast or of the receipt wait is logged for a requestId, the call
\* that failed had been attempted more than once for it.
C15_FailedAfterRetries ==
    \A f \in failed :
        /\ f[2] = "fetch" => runs[f[1]] > 1
        /\ f[2] \in {"send", "wait"} => submits[f[1]] > 1

\* C16: a failure is terminal for its requestId: once a handler has failed
\* for a requestId, no later event starts handle_resolution_request for that
\* requestId again.
C16_FailedIsTerminal ==
    [][ \A r \in RequestIds :
          (\E f \in failed : f[1] = r) => runs'[r] = runs[r] ]_vars

\* C17: no nonce is used twice: no two transactions sent by submit_resolution
\* carry the same nonce, also when the receipt wait of the earlier one failed
\* while it was still pending.
C17_NoNonceReuse ==
    \A i, j \in 1..Len(txs) : i # j => txs[i].nonce # txs[j].nonce

\* C18: a job is reported committed only after the receipt of its own
\* transaction: the handler can return from submit_resolution only when the
\* transaction it sent is in a block, so every committed requestId has a mined
\* transaction; a job whose receipt wait failed is not committed by it.
C18_CommittedAfterReceipt ==
    /\ \A r \in committed : \E i \in mined : txs[i].request_id = r
    /\ jpc = "wait" =>
          /\ txs[Len(txs)] = tx
          /\ ENABLED ReceiptOk => Len(txs) \in mined

C18_Witness ==
    \E r \in committed, f \in failed :
        /\ f[2] = "wait" /\ f[1] # r /\ f[1] \notin committed
        /\ \E i \in 1..Len(txs) : txs[i].request_id = f[1]

\* C19: the agent resolves its own assignments only: the handlers started
\* for a requestId are exactly the events taken from the batch whose agent is
\* this agent's address in any letter case; an event for another agent starts
\* none.
C19_OwnAssignmentsOnly ==
    /\ \A r \in RequestIds : runs[r] = assigned[r] - PendingFor(r)
    /\ jpc # "idle" => runs[request_id] > 0

C19_Witness ==
    /\ n_emitted = 2 /\ new_entries = << >> /\ batch = << >>
    /\ jpc = "fetch" /\ request_id = 1
    /\ runs[1] = 1 /\ runs[2] = 0 /\ assigned[1] = 1

\* C20: the commit transaction of a job carries the job's own requestId, the
\* outcome and confidence analyze_with_ai returns on the bundle gathered for
\* the request's question and category, and the hash of that same bundle; the
\* job reaches submit_resolution only with the request details fetched, the
\* evidence gathered and the analysis made. (txs only grows at its end, so
\* every transaction sent is checked when it is the last one.)
C20_PayloadConsistent ==
    /\ jpc \in {"submit", "send", "wait"} =>
          /\ request # None /\ evidence # None /\ analysis # None
          /\ request.question = QuestionOf(request_id)
          /\ evidence.question = request.question
          /\ evidence.category = request.category
          /\ analysis = analyze_with_ai(request.question, evidence)
    /\ jpc \in {"send", "wait"} =>
          /\ tx.request_id = request_id
          /\ tx.outcome = analysis.outcome
          /\ tx.confidence = analysis.confidence
          /\ tx.evidence_hash = keccak(evidence)
    /\ txs # << >> =>
          LET sent == txs[Len(txs)]
              bundle == sent.evidence_hash.keccak
              decision == analyze_with_ai(bundle.question, bundle)
          IN  /\ bundle.question = QuestionOf(sent.request_id)
              /\ sent.outcome = decision.outcome
              /\ sent.confidence = decision.confidence

C20_Witness ==
    /\ Len(txs) = 2
    /\ txs[1].request_id # txs[2].request_id
    /\ txs[1].outcome # txs[2].outcome
    /\ txs[1].evidence_hash # txs[2].evidence_hash

\* the transactions sent for requestId r
TxCount(r) == Cardinality({ i \in 1..Len(txs) : txs[i].request_id = r })

\* the stages of the handler before submit_resolution is called
EarlyStages == {"fetch", "gather", "analyze"}

\* 1 when a handler for requestId r has failed before submit_resolution
EarlyFailed(r) ==
    IF \E f \in failed : f[1] = r /\ f[2] \in EarlyStages THEN 1 ELSE 0

\* 1 when the handler running is for requestId r and has not yet called
\* submit_resolution
NotYetSubmitting(r) ==
    IF Active(r) /\ jpc \in EarlyStages \cup {"submit"} THEN 1 ELSE 0

\* C21: no commit on an earlier failure: a handler in which get_request_details
\* (or a later stage before submit_resolution) raises has called
\* submit_resolution not at all and sent no transaction, and its exception
\* stays in the handler: a handler runs and ends inside the for loop over the
\* batch, and the loop has left the batch only with every event of it handled
\* (what is then not yet handled is still held by the filter).
C21_NoCommitOnEarlyFailure ==
    /\ \A r \in RequestIds :
          /\ TxCount(r) <= submits[r]
          /\ submits[r] + EarlyFailed(r) + NotYetSubmitting(r) <= runs[r]
          /\ wpc # "batch" => assigned[r] - runs[r] = CountFor(new_entries, r)
    /\ batch # << >> => wpc = "batch"
    /\ jpc # "idle" => wpc = "batch"

C21_Witness ==
    /\ << 1, "fetch" >> \in failed
    /\ runs[1] = 1 /\ submits[1] = 0 /\ txs = << >>
    /\ jpc = "idle" /\ wpc = "batch"
    /\ CountFor(batch, 2) = 1 /\ runs[2] = 0
    /\ ENABLED NextEvent

-----------------------------------------------------------------------------
(* analyze_with_ai on its own: two calls on bundles of up to MaxRecords records *)

Answers == {"True", "False", "None"}

\* the evidence records a bundle may hold
EvidenceRecords == [source : {"Perplexity AI"}, answer : Answers]

\* the bundles of up to MaxRecords records
EvidenceBundles ==
    { Bundle("q1", "general", srcs) :
        srcs \in UNION { [1..k -> EvidenceRecords] : k \in 0..MaxRecords } }

AnalyzeInputs == [question : Questions, evidence : EvidenceBundles]

InitAnalyze ==
    /\ InitAgent
    /\ perplexity_api_key = FALSE
    /\ a_inputs \in [1..2 -> AnalyzeInputs]
    /\ a_results = << >>

\* the next call: await self.analyze_with_ai(question, evidence)
AnalyzeCall ==
    /\ Len(a_results) < Len(a_inputs)
    /\ LET in == a_inputs[Len(a_results) + 1]
       IN  a_results' = Append(a_results, analyze_with_ai(in.question, in.evidence))
    /\ UNCHANGED << a_inputs, perplexity_api_key, eventVars, watcherVars,
                    jobVars, gatherVars, chainVars, historyVars >>

AnalyzeNext == AnalyzeCall

AnalyzeSpec == InitAnalyze /\ [][AnalyzeNext]_vars

\* the calls made so far
Called == 1..Len(a_results)

\* the records of call k's bundle, and how many of them answer a
SourcesOf(k) == a_inputs[k].evidence.sources
AnswerCount(k, a) == Cardinality({ i \in DOMAIN SourcesOf(k) : SourcesOf(k)[i].answer = a })
YesCount(k) == AnswerCount(k, "True")
NoCount(k) == AnswerCount(k, "False")
WinCount(k) == IF YesCount(k) > NoCount(k) THEN YesCount(k) ELSE NoCount(k)

\* the answers of call k's bundle, in order
AnswersOf(k) == [i \in DOMAIN SourcesOf(k) |-> SourcesOf(k)[i].answer]

-----------------------------------------------------------------------------
(* Properties of analyze_with_ai, under AnalyzeSpec *)

\* C5: for every bundle with zero sources, analyze_with_ai returns outcome
\* false and confidence 50 (no division by the number of sources is made), and
\* key_evidence is the empty record.
C5_EmptyBundle ==
    \A k \in Called :
        a_inputs[k].evidence.source_count = 0 =>
            /\ a_results[k].outcome = FALSE
            /\ a_results[k].confidence = 50
            /\ a_results[k].key_evidence = EmptyDict

C5_Witness ==
    \E k \in Called :
        /\ a_inputs[k].evidence.source_count = 0
        /\ a_inputs[k].evidence.sources = << >>
        /\ a_results[k].confidence = 50

\* C6: a tie never resolves true: whenever as many records answer true as
\* answer false (both zero included, any number of unknown answers), the
\* outcome is false and the confidence is 50.
C6_TieIsFalse ==
    \A k \in Called :
        YesCount(k) = NoCount(k) =>
            /\ a_results[k].outcome = FALSE
            /\ a_results[k].confidence = 50

C6_Witness ==
    \E k \in Called :
        /\ YesCount(k) = NoCount(k)
        /\ YesCount(k) > 0
        /\ AnswerCount(k, "None") > 0
        /\ a_results[k].outcome = FALSE

\* c is min(95, 60 + 40*w/n) truncated to an integer, in exact arithmetic
IsTruncatedConfidence(c, w, n) ==
    IF 60 * n + 40 * w >= 95 * n
    THEN c = 95
    ELSE c * n <= 60 * n + 40 * w /\ 60 * n + 40 * w < (c + 1) * n

\* C7: the majority rule: with yesCount # noCount the outcome is true iff
\* yesCount > noCount, and the confidence is min(95, 60 + 40*w/sourceCount)
\* truncated, w the winning count and sourceCount counting every record, the
\* unknown answers included; {true, true, unknown} gives true with 86 and
\* {false, false} gives false with 95.
C7_MajorityRule ==
    \A k \in Called :
        /\ YesCount(k) # NoCount(k) =>
              /\ a_results[k].outcome = (YesCount(k) > NoCount(k))
              /\ IsTruncatedConfidence(a_results[k].confidence, WinCount(k),
                                       a_inputs[k].evidence.source_count)
        /\ AnswersOf(k) = << "True", "True", "None" >> =>
              a_results[k].outcome = TRUE /\ a_results[k].confidence = 86
        /\ AnswersOf(k) = << "False", "False" >> =>
              a_results[k].outcome = FALSE /\ a_results[k].confidence = 95

C7_Witness ==
    \E k \in Called :
        /\ AnswersOf(k) = << "True", "True", "None" >>
        /\ a_results[k].confidence = 86

\* C8: for every bundle with at least one source the confidence is an integer
\* in [50, 95].
C8_ConfidenceRange ==
    \A k \in Called :
        a_inputs[k].evidence.source_count >= 1 =>
            a_results[k].confidence \in 50..95

C8_Witness ==
    \E k \in Called :
        /\ a_inputs[k].evidence.source_count >= 1
        /\ YesCount(k) = a_inputs[k].evidence.source_count
        /\ a_results[k].confidence = 95

\* C9: the confidence is monotone in the winning side's share: of two bundles
\* with a strict majority, the one whose winning count over sourceCount is no
\* larger has a confidence that is no larger.
C9_Monotone ==
    \A j \in Called, k \in Called :
        ( /\ YesCount(j) # NoCount(j)
          /\ YesCount(k) # NoCount(k)
          /\ WinCount(j) * Len(SourcesOf(k)) <= WinCount(k) * Len(SourcesOf(j)) )
        => a_results[j].confidence <= a_results[k].confidence

C9_Witness ==
    \E j \in Called, k \in Called :
        /\ YesCount(j) # NoCount(j)
        /\ YesCount(k) # NoCount(k)
        /\ WinCount(j) * Len(SourcesOf(k)) < WinCount(k) * Len(SourcesOf(j))
        /\ a_results[j].confidence < a_results[k].confidence

====
